---- MODULE Spec2Model ----
(***************************************************************************)
(* Model of internal/util/env.go: resolution of the well-known paths below *)
(* V23_ROOT and construction of the vanadium build environment for a       *)
(* target platform.                                                        *)
(*                                                                         *)
(* Strings are sequences of lexical atoms.  An atom is either one of the   *)
(* characters the code treats specially ("/", ":", " ", the "v" of an ARM  *)
(* revision) or a maximal run of other characters ("third_party", "-I").   *)
(* "" is << >>, "/v23/release" is <<"/", "v23", "/", "release">>.          *)
(***************************************************************************)
EXTENDS Integers, Sequences, FiniteSets, TLC

VARIABLES osEnv, heap, fs, host, config, call, ret

vars == <<osEnv, heap, fs, host, config, call, ret>>

(***************************************************************************)
(* Bounds of the explored inputs.                                          *)
(***************************************************************************)
\* Largest number of pre-existing entries of a token-list variable.
MaxTokens == 2
\* Largest number of configured Go workspaces.
MaxGoWorkspaces == 2
\* Largest number of configured VDL workspaces.
MaxVdlWorkspaces == 2
\* Largest number of calls whose snapshot objects are kept in the heap.
MaxCalls == 2

(***************************************************************************)
(* Strings.                                                                *)
(***************************************************************************)
\* The one-atom string.
S(a) == <<a>>

EmptyStr == << >>

Tail2(s, i) == SubSeq(s, i, Len(s))

\* Index of the first atom sep in s, 0 when there is none.
RECURSIVE IndexFrom(_, _, _)
IndexFrom(s, sep, i) ==
  IF i > Len(s) THEN 0
  ELSE IF s[i] = sep THEN i
  ELSE IndexFrom(s, sep, i + 1)

\* strings.Split(s, sep): the pieces of s between the separators, empty
\* pieces included; a string without separator is its own single piece.
RECURSIVE StringsSplit(_, _)
StringsSplit(s, sep) ==
  LET i == IndexFrom(s, sep, 1) IN
    IF i = 0 THEN <<s>>
    ELSE <<SubSeq(s, 1, i - 1)>> \o StringsSplit(Tail2(s, i + 1), sep)

\* strings.Join(tokens, sep).
RECURSIVE StringsJoin(_, _)
StringsJoin(tokens, sep) ==
  IF Len(tokens) = 0 THEN EmptyStr
  ELSE IF Len(tokens) = 1 THEN tokens[1]
  ELSE tokens[1] \o <<sep>> \o StringsJoin(Tail(tokens), sep)

\* strings.TrimPrefix(s, prefix).
TrimPrefix(s, prefix) ==
  IF Len(s) >= Len(prefix) /\ SubSeq(s, 1, Len(prefix)) = prefix
  THEN Tail2(s, Len(prefix) + 1)
  ELSE s

\* filepath.IsAbs on a Unix path.
IsAbs(p) == Len(p) > 0 /\ p[1] = "/"

\* The component stack of filepath.Clean: empty and "." components are
\* dropped, ".." removes the component before it (at the root it is dropped,
\* at the start of a relative path it is kept).
RECURSIVE CleanComponents(_, _, _)
CleanComponents(comps, out, rooted) ==
  IF Len(comps) = 0 THEN out
  ELSE
    LET c == Head(comps)
        rest == Tail(comps)
    IN  IF c = EmptyStr \/ c = S(".") THEN CleanComponents(rest, out, rooted)
        ELSE IF c = S("..") THEN
          IF Len(out) > 0 /\ out[Len(out)] # S("..")
          THEN CleanComponents(rest, SubSeq(out, 1, Len(out) - 1), rooted)
          ELSE IF rooted THEN CleanComponents(rest, out, rooted)
          ELSE CleanComponents(rest, Append(out, c), rooted)
        ELSE CleanComponents(rest, Append(out, c), rooted)

\* filepath.Clean.
FilepathClean(p) ==
  LET rooted == IsAbs(p)
      body == StringsJoin(CleanComponents(StringsSplit(p, "/"), << >>, rooted), "/")
  IN  IF rooted THEN <<"/">> \o body
      ELSE IF body = EmptyStr THEN S(".")
      ELSE body

RECURSIVE DropEmpty(_)
DropEmpty(elems) ==
  IF Len(elems) = 0 THEN << >>
  ELSE IF Head(elems) = EmptyStr THEN DropEmpty(Tail(elems))
  ELSE <<Head(elems)>> \o DropEmpty(Tail(elems))

\* filepath.Join(elems...): the non-empty elements joined by "/" and cleaned;
\* "" when every element is empty.
FilepathJoin(elems) ==
  LET kept == DropEmpty(elems) IN
    IF Len(kept) = 0 THEN EmptyStr
    ELSE FilepathClean(StringsJoin(kept, "/"))

(***************************************************************************)
(* Errors and results.                                                     *)
(***************************************************************************)
NoPlatform == [OS |-> EmptyStr, Arch |-> EmptyStr, SubArch |-> EmptyStr]

MkErr(kind) == [kind |-> kind, platform |-> NoPlatform]

\* nil
NoErr == MkErr("nil")

\* fmt.Errorf("%v is not set", rootEnv)
RootNotSetErr == MkErr("RootNotSet")

\* fmt.Errorf("EvalSymlinks(%v) failed: %v", root)
EvalSymlinksErr == MkErr("EvalSymlinks")

\* fmt.Errorf("Stat(%v) failed: %v", ...)
StatErr == MkErr("Stat")

\* The error LoadConfig returns.
LoadConfigErr == MkErr("LoadConfig")

\* UnsupportedPlatformErr{platform}
UnsupportedPlatformErr(platform) == [kind |-> "UnsupportedPlatform", platform |-> platform]

\* A (string, error) result.
StrResult(path, err) == [path |-> path, err |-> err]

(***************************************************************************)
(* The process environment and envutil snapshots: a variable is unset, or  *)
(* set to a string.                                                        *)
(***************************************************************************)
rootEnv == "V23_ROOT"

EnvKeys ==
  {rootEnv, "PATH", "GOPATH", "VDLPATH", "CGO_ENABLED", "CGO_CFLAGS",
   "CGO_LDFLAGS", "GOOS", "GOARCH", "GOARM", "HOME"}

Unset == [set |-> FALSE, val |-> EmptyStr]

Value(s) == [set |-> TRUE, val |-> s]

\* os.Getenv: the empty string for an unset variable.
Getenv(env, key) == env[key].val

\* envutil.NewSnapshotFromOS: a copy of the process environment.
NewSnapshotFromOS(env) == [k \in EnvKeys |-> env[k]]

\* Snapshot.Get
Get(env, key) == env[key].val

\* Snapshot.Set
Set(env, key, value) == [env EXCEPT ![key] = Value(value)]

\* Snapshot.GetTokens: the value split on the separator; a variable that is
\* not set (or is empty) has no tokens.
GetTokens(env, key, sep) ==
  IF Get(env, key) = EmptyStr THEN << >>
  ELSE StringsSplit(Get(env, key), sep)

\* Snapshot.SetTokens: the tokens re-joined with the separator.
SetTokens(env, key, tokens, sep) == Set(env, key, StringsJoin(tokens, sep))

(***************************************************************************)
(* The filesystem: the tree lives at /v23, /link is a symbolic link to it, *)
(* /gone is a dangling link.  fs holds the outcome of os.Stat for the      *)
(* library directory, the local manifest and the default manifest.         *)
(***************************************************************************)
RealRoot == <<"/", "v23">>

LinkRoot == <<"/", "link">>

DanglingRoot == <<"/", "gone">>

StatOutcomes == {"exists", "notexist", "error"}

LevelDbDir == RealRoot \o <<"/", "third_party", "/", "cout", "/", "leveldb">>

LocalManifestPath == RealRoot \o <<"/", ".local_manifest">>

DefaultManifestPath == RealRoot \o <<"/", ".manifest", "/", "v2", "/", "default">>

\* filepath.EvalSymlinks
EvalSymlinks(p) ==
  IF p = DanglingRoot THEN StrResult(EmptyStr, EvalSymlinksErr)
  ELSE IF p = LinkRoot THEN StrResult(RealRoot, NoErr)
  ELSE StrResult(FilepathClean(p), NoErr)

\* os.Stat, as "exists", "notexist" (os.IsNotExist) or "error".
Stat(fsys, p) ==
  IF p = LevelDbDir THEN fsys.leveldb
  ELSE IF p = LocalManifestPath THEN fsys.localManifest
  ELSE IF p = DefaultManifestPath THEN fsys.defaultManifest
  ELSE "notexist"

(***************************************************************************)
(* Path derivation.                                                        *)
(***************************************************************************)
\* V23Root without the check for an empty value.
V23RootUnchecked(env) ==
  LET r == EvalSymlinks(Getenv(env, rootEnv)) IN
    IF r.err # NoErr THEN StrResult(EmptyStr, EvalSymlinksErr)
    ELSE StrResult(r.path, NoErr)

V23Root(env) ==
  LET root == Getenv(env, rootEnv) IN
    IF root = EmptyStr THEN StrResult(EmptyStr, RootNotSetErr)
    ELSE LET r == EvalSymlinks(root) IN
      IF r.err # NoErr THEN StrResult(EmptyStr, EvalSymlinksErr)
      ELSE StrResult(r.path, NoErr)

LocalManifestFile(env) ==
  LET r == V23Root(env) IN
    IF r.err # NoErr THEN StrResult(EmptyStr, r.err)
    ELSE StrResult(FilepathJoin(<<r.path, S(".local_manifest")>>), NoErr)

LocalSnapshotDir(env) ==
  LET r == V23Root(env) IN
    IF r.err # NoErr THEN StrResult(EmptyStr, r.err)
    ELSE StrResult(FilepathJoin(<<r.path, S(".snapshot")>>), NoErr)

ManifestDir(env) ==
  LET r == V23Root(env) IN
    IF r.err # NoErr THEN StrResult(EmptyStr, r.err)
    ELSE StrResult(FilepathJoin(<<r.path, S(".manifest"), S("v2")>>), NoErr)

ManifestFile(env, name) ==
  LET d == ManifestDir(env) IN
    IF d.err # NoErr THEN StrResult(EmptyStr, d.err)
    ELSE StrResult(FilepathJoin(<<d.path, name>>), NoErr)

RemoteSnapshotDir(env) ==
  LET d == ManifestDir(env) IN
    IF d.err # NoErr THEN StrResult(EmptyStr, d.err)
    ELSE StrResult(FilepathJoin(<<d.path, S("snapshot")>>), NoErr)

\* A resolution result: the path, the error and the number of recursive
\* calls made to produce them.
Resolved(path, err, depth) == [path |-> path, err |-> err, depth |-> depth]

\* ResolveManifestPath that joins every name with the manifest directory.
ResolveManifestPathNoAbs(env, fsys, name) ==
  LET r == ManifestFile(env, IF name = EmptyStr THEN S("default") ELSE name)
  IN  Resolved(r.path, r.err, IF name = EmptyStr THEN 1 ELSE 0)

\* ResolveManifestPath that returns the local manifest without looking for it.
ResolveManifestPathNoStat(env, fsys, name) ==
  IF name # EmptyStr THEN
    IF IsAbs(name) THEN Resolved(name, NoErr, 0)
    ELSE LET r == ManifestFile(env, name) IN Resolved(r.path, r.err, 0)
  ELSE LET l == LocalManifestFile(env) IN Resolved(l.path, l.err, 0)

RECURSIVE ResolveManifestPath(_, _, _)
ResolveManifestPath(env, fsys, name) ==
  IF name # EmptyStr THEN
    IF IsAbs(name) THEN Resolved(name, NoErr, 0)
    ELSE LET r == ManifestFile(env, name) IN Resolved(r.path, r.err, 0)
  ELSE
    LET l == LocalManifestFile(env) IN
      IF l.err # NoErr THEN Resolved(EmptyStr, l.err, 0)
      ELSE IF Stat(fsys, l.path) = "notexist" THEN
        LET r == ResolveManifestPath(env, fsys, S("default"))
        IN  Resolved(r.path, r.err, r.depth + 1)
      ELSE IF Stat(fsys, l.path) = "error" THEN Resolved(EmptyStr, StatErr, 0)
      ELSE Resolved(l.path, NoErr, 0)

(***************************************************************************)
(* Configuration.                                                          *)
(***************************************************************************)
\* LoadConfig: the parsed configuration, or the error of reading it.
LoadConfig(cfg) == IF cfg.status = "ok" THEN NoErr ELSE LoadConfigErr

\* Config.GoWorkspaces
GoWorkspaces(cfg) == cfg.go

\* Config.VDLWorkspaces
VDLWorkspaces(cfg) == cfg.vdl

(***************************************************************************)
(* Environment construction.                                               *)
(***************************************************************************)
\* What a helper that mutates the snapshot leaves behind: the snapshot and
\* the error it returned.
EnvResult(env, err) == [env |-> env, err |-> err]

\* root joined with each workspace, in order.
WorkspacePaths(root, workspaces) ==
  [i \in 1..Len(workspaces) |-> FilepathJoin(<<root, workspaces[i]>>)]

\* setGoPath that puts the workspaces in front of the existing entries.
setGoPathPrepend(env, root, cfg) ==
  SetTokens(env, "GOPATH",
            WorkspacePaths(root, GoWorkspaces(cfg)) \o GetTokens(env, "GOPATH", ":"), ":")

setGoPath(env, root, cfg) ==
  SetTokens(env, "GOPATH",
            GetTokens(env, "GOPATH", ":") \o WorkspacePaths(root, GoWorkspaces(cfg)), ":")

\* setVdlPath that goes through the workspaces from the last to the first.
setVdlPathReversed(env, root, cfg) ==
  SetTokens(env, "VDLPATH",
            GetTokens(env, "VDLPATH", ":")
              \o [i \in 1..Len(VDLWorkspaces(cfg)) |->
                    FilepathJoin(<<root, VDLWorkspaces(cfg)[Len(VDLWorkspaces(cfg)) + 1 - i]>>)],
            ":")

setVdlPath(env, root, cfg) ==
  SetTokens(env, "VDLPATH",
            GetTokens(env, "VDLPATH", ":") \o WorkspacePaths(root, VDLWorkspaces(cfg)), ":")

\* setSyncbaseCgoEnv that adds the runtime search path on every OS.
setSyncbaseCgoEnvRpath(env, root, arch, fsys) ==
  LET e1 == Set(env, "CGO_ENABLED", S("1"))
      dir == FilepathJoin(<<root, S("third_party"), S("cout"), S("leveldb")>>)
      st == Stat(fsys, dir)
      cflags2 == IF st = "exists"
                 THEN GetTokens(e1, "CGO_CFLAGS", " ")
                        \o <<FilepathJoin(<<S("-I") \o dir, S("include")>>)>>
                 ELSE GetTokens(e1, "CGO_CFLAGS", " ")
      ldflags2 == IF st = "exists"
                  THEN GetTokens(e1, "CGO_LDFLAGS", " ")
                         \o <<FilepathJoin(<<S("-L") \o dir, S("lib")>>),
                              S("-Wl,-rpath"), FilepathJoin(<<dir, S("lib")>>)>>
                  ELSE GetTokens(e1, "CGO_LDFLAGS", " ")
  IN  IF st = "error" THEN EnvResult(e1, StatErr)
      ELSE EnvResult(SetTokens(SetTokens(e1, "CGO_CFLAGS", cflags2, " "),
                               "CGO_LDFLAGS", ldflags2, " "), NoErr)

setSyncbaseCgoEnv(env, root, arch, fsys) ==
  LET e1 == Set(env, "CGO_ENABLED", S("1"))
      cflags == GetTokens(e1, "CGO_CFLAGS", " ")
      ldflags == GetTokens(e1, "CGO_LDFLAGS", " ")
      dir == FilepathJoin(<<root, S("third_party"), S("cout"), S("leveldb")>>)
      st == Stat(fsys, dir)
      cflags2 == IF st = "exists"
                 THEN cflags \o <<FilepathJoin(<<S("-I") \o dir, S("include")>>)>>
                 ELSE cflags
      ldflags2 == IF st = "exists"
                  THEN ldflags \o <<FilepathJoin(<<S("-L") \o dir, S("lib")>>)>>
                         \o (IF arch = S("linux")
                             THEN <<S("-Wl,-rpath"), FilepathJoin(<<dir, S("lib")>>)>>
                             ELSE << >>)
                  ELSE ldflags
  IN  IF st = "error" THEN EnvResult(e1, StatErr)
      ELSE EnvResult(SetTokens(SetTokens(e1, "CGO_CFLAGS", cflags2, " "),
                               "CGO_LDFLAGS", ldflags2, " "), NoErr)

\* setAndroidEnv that leaves CGO_ENABLED alone and copies SubArch as it is.
setAndroidEnvPlain(env, platform, os) ==
  LET r == V23Root(os) IN
    IF r.err # NoErr THEN EnvResult(env, r.err)
    ELSE
      LET e2 == Set(env, "GOOS", platform.OS)
          e3 == Set(e2, "GOARCH", platform.Arch)
          e4 == Set(e3, "GOARM", platform.SubArch)
          path == <<FilepathJoin(<<r.path, S("environment"), S("android"), S("go"), S("bin")>>)>>
                    \o GetTokens(e4, "PATH", ":")
      IN  EnvResult(SetTokens(e4, "PATH", path, ":"), NoErr)

setAndroidEnv(env, platform, os) ==
  LET r == V23Root(os) IN
    IF r.err # NoErr THEN EnvResult(env, r.err)
    ELSE
      LET e1 == Set(env, "CGO_ENABLED", S("1"))
          e2 == Set(e1, "GOOS", platform.OS)
          e3 == Set(e2, "GOARCH", platform.Arch)
          e4 == Set(e3, "GOARM", TrimPrefix(platform.SubArch, S("v")))
          path == <<FilepathJoin(<<r.path, S("environment"), S("android"), S("go"), S("bin")>>)>>
                    \o GetTokens(e4, "PATH", ":")
      IN  EnvResult(SetTokens(e4, "PATH", path, ":"), NoErr)

\* setArmEnv that adds the toolchain directories after the existing entries.
setArmEnvAppend(env, platform, os) ==
  LET r == V23Root(os) IN
    IF r.err # NoErr THEN EnvResult(env, r.err)
    ELSE
      LET e1 == Set(env, "GOARCH", platform.Arch)
          e2 == Set(e1, "GOARM", TrimPrefix(platform.SubArch, S("v")))
          e3 == Set(e2, "GOOS", platform.OS)
          path == GetTokens(e3, "PATH", ":")
                    \o <<FilepathJoin(<<r.path, S("third_party"), S("cout"), S("xgcc"), S("cross_arm")>>),
                         FilepathJoin(<<r.path, S("third_party"), S("repos"), S("go_arm"), S("bin")>>)>>
      IN  EnvResult(SetTokens(e3, "PATH", path, ":"), NoErr)

setArmEnv(env, platform, os) ==
  LET r == V23Root(os) IN
    IF r.err # NoErr THEN EnvResult(env, r.err)
    ELSE
      LET e1 == Set(env, "GOARCH", platform.Arch)
          e2 == Set(e1, "GOARM", TrimPrefix(platform.SubArch, S("v")))
          e3 == Set(e2, "GOOS", platform.OS)
          path == <<FilepathJoin(<<r.path, S("third_party"), S("cout"), S("xgcc"), S("cross_arm")>>),
                    FilepathJoin(<<r.path, S("third_party"), S("repos"), S("go_arm"), S("bin")>>)>>
                    \o GetTokens(e3, "PATH", ":")
      IN  EnvResult(SetTokens(e3, "PATH", path, ":"), NoErr)

\* setNaclEnv that also sets the ARM revision.
setNaclEnvWithArm(env, platform) ==
  EnvResult(Set(Set(Set(env, "GOARCH", platform.Arch), "GOOS", platform.OS),
                "GOARM", TrimPrefix(platform.SubArch, S("v"))), NoErr)

setNaclEnv(env, platform) ==
  EnvResult(Set(Set(env, "GOARCH", platform.Arch), "GOOS", platform.OS), NoErr)

\* The cases of the platform switch, in the order the code tries them.
IsHost(platform, rt) == platform.Arch = rt.GOARCH /\ platform.OS = rt.GOOS

IsArmLinux(platform) == platform.Arch = S("arm") /\ platform.OS = S("linux")

IsArmAndroid(platform) == platform.Arch = S("arm") /\ platform.OS = S("android")

\* The nacl case without the test of the architecture.
IsNaclAnyArch(platform) == platform.OS = S("nacl")

IsNacl(platform) ==
  (platform.Arch = S("386") \/ platform.Arch = S("amd64p32")) /\ platform.OS = S("nacl")

\* The switch on the platform.
PlatformSwitch(env, platform, os, rt) ==
  IF IsHost(platform, rt) THEN EnvResult(env, NoErr)
  ELSE IF IsArmLinux(platform) THEN setArmEnv(env, platform, os)
  ELSE IF IsArmAndroid(platform) THEN setAndroidEnv(env, platform, os)
  ELSE IF IsNacl(platform) THEN setNaclEnv(env, platform)
  ELSE EnvResult(env, UnsupportedPlatformErr(platform))

\* The steps between the snapshot and the switch, on the environment the
\* snapshot holds: the root, the configuration, the workspaces and the
\* native-library step.
PrepareEnv(env, os, fsys, cfg, platform) ==
  LET r == V23Root(os) IN
    IF r.err # NoErr THEN EnvResult(env, r.err)
    ELSE IF LoadConfig(cfg) # NoErr THEN EnvResult(env, LoadConfig(cfg))
    ELSE
      LET e2 == setVdlPath(setGoPath(env, r.path, cfg), r.path, cfg)
      IN  IF platform.OS = S("darwin") \/ platform.OS = S("linux")
          THEN setSyncbaseCgoEnv(e2, r.path, platform.OS, fsys)
          ELSE EnvResult(e2, NoErr)

(***************************************************************************)
(* Memory.  A *envutil.Snapshot is a reference to an object that the        *)
(* helpers above change in place.  The memory a call works on holds the    *)
(* process environment, at reference ProcessEnvRef, and the snapshot       *)
(* objects allocated so far, at references 1, 2, ...                       *)
(***************************************************************************)
ProcessEnvRef == 0

Memory(proc, objs) == [proc |-> proc, objs |-> objs]

\* The environment a reference denotes.
Deref(mem, ref) == IF ref = ProcessEnvRef THEN mem.proc ELSE mem.objs[ref]

\* The memory after a helper has left env in the object ref denotes.
Store(mem, ref, env) ==
  IF ref = ProcessEnvRef THEN [mem EXCEPT !.proc = env]
  ELSE [mem EXCEPT !.objs[ref] = env]

\* env := envutil.NewSnapshotFromOS(): a new object holding a copy of the
\* process environment.
Allocated(mem) == Memory(mem.proc, Append(mem.objs, NewSnapshotFromOS(mem.proc)))

\* What VanadiumEnvironment leaves behind: the memory, the reference it
\* returns (<<ref>>, or << >> for nil) and the error.
Returned(mem, ref) == [mem |-> mem, snap |-> <<ref>>, err |-> NoErr]

Failed(mem, err) == [mem |-> mem, snap |-> << >>, err |-> err]

\* The state of a call at the switch: the memory after the helper calls so
\* far have left the environment of r in the object env denotes, the
\* reference and the error.
AtSwitch(mem, env, r) == [mem |-> Store(mem, env, r.env), env |-> env, err |-> r.err]

\* VanadiumEnvironment up to the switch that makes its changes to the
\* process environment itself instead of a snapshot of it.
BeforeSwitchInPlace(mem, fsys, cfg, platform) ==
  AtSwitch(mem, ProcessEnvRef, PrepareEnv(mem.proc, mem.proc, fsys, cfg, platform))

\* The steps before the switch on the object allocated last in m0.
PrepareSnapshot(m0, fsys, cfg, platform) ==
  AtSwitch(m0, Len(m0.objs),
           PrepareEnv(Deref(m0, Len(m0.objs)), m0.proc, fsys, cfg, platform))

\* VanadiumEnvironment up to the switch on the platform: the snapshot object
\* is allocated and the steps before the switch change it.
BeforeSwitch(mem, fsys, cfg, platform) ==
  PrepareSnapshot(Allocated(mem), fsys, cfg, platform)

\* The return of VanadiumEnvironment, the switch having returned s.
AfterSwitch(b, s) ==
  IF s.err # NoErr THEN Failed(Store(b.mem, b.env, s.env), s.err)
  ELSE Returned(Store(b.mem, b.env, s.env), b.env)

\* VanadiumEnvironment from the state b it has reached before the switch.
FromSwitch(b, platform, rt) ==
  IF b.err # NoErr THEN Failed(b.mem, b.err)
  ELSE AfterSwitch(b, PlatformSwitch(Deref(b.mem, b.env), platform, b.mem.proc, rt))

VanadiumEnvironment(mem, fsys, cfg, rt, platform) ==
  FromSwitch(BeforeSwitch(mem, fsys, cfg, platform), platform, rt)

(***************************************************************************)
(* Inputs.                                                                 *)
(***************************************************************************)
Platform(os, arch, subarch) == [OS |-> S(os), Arch |-> S(arch), SubArch |-> subarch]

\* The sub-architectures tried with arm: none, "v7", "7" and "vv6".
SubArchs == {EmptyStr, <<"v", "7">>, S("7"), <<"v", "v", "6">>}

Platforms ==
  { Platform(os, arch, EmptyStr) :
      os \in {"linux", "darwin", "android", "nacl"},
      arch \in {"amd64", "386", "amd64p32", "arm"} }
  \cup { Platform(os, "arm", sub) : os \in {"linux", "android"}, sub \in SubArchs }

\* One platform of each case of the switch.
SomePlatforms ==
  { Platform("linux", "amd64", EmptyStr), Platform("linux", "arm", <<"v", "7">>),
    Platform("android", "arm", <<"v", "7">>), Platform("nacl", "386", EmptyStr),
    Platform("darwin", "amd64", EmptyStr), Platform("darwin", "386", EmptyStr) }

\* runtime.GOOS and runtime.GOARCH of the machines the tool runs on.
Hosts ==
  { [GOOS |-> S("linux"), GOARCH |-> S("amd64")],
    [GOOS |-> S("linux"), GOARCH |-> S("arm")],
    [GOOS |-> S("darwin"), GOARCH |-> S("amd64")] }

\* The values of V23_ROOT: unset, empty, the tree, a link to it, a dangling
\* link.  The root is an absolute path.
RootSettings ==
  {Unset, Value(EmptyStr), Value(RealRoot), Value(LinkRoot), Value(DanglingRoot)}

PathEntry(i) == <<"/", "bin" \o ToString(i)>>

GoPathEntry(i) == <<"/", "home", "/", "go" \o ToString(i)>>

VdlPathEntry(i) == <<"/", "home", "/", "vdl" \o ToString(i)>>

CFlag(i) == S("-DC" \o ToString(i))

LdFlag(i) == S("-lm" \o ToString(i))

\* A process environment whose token-list variables hold n entries each and
\* whose Go variables hold values of an earlier build.
SetAmbient(root, n) ==
  [k \in EnvKeys |->
     CASE k = rootEnv -> root
       [] k = "PATH" -> Value(StringsJoin([i \in 1..n |-> PathEntry(i)], ":"))
       [] k = "GOPATH" -> Value(StringsJoin([i \in 1..n |-> GoPathEntry(i)], ":"))
       [] k = "VDLPATH" -> Value(StringsJoin([i \in 1..n |-> VdlPathEntry(i)], ":"))
       [] k = "CGO_CFLAGS" -> Value(StringsJoin([i \in 1..n |-> CFlag(i)], " "))
       [] k = "CGO_LDFLAGS" -> Value(StringsJoin([i \in 1..n |-> LdFlag(i)], " "))
       [] k = "CGO_ENABLED" -> Value(S("0"))
       [] k = "GOOS" -> Value(S("plan9"))
       [] k = "GOARCH" -> Value(S("mips"))
       [] k = "GOARM" -> Value(S("5"))
       [] OTHER -> Value(<<"/", "home">>)]

\* A process environment with none of the build variables set.
BareAmbient(root) ==
  [k \in EnvKeys |->
     IF k = rootEnv THEN root
     ELSE IF k = "HOME" THEN Value(<<"/", "home">>)
     ELSE Unset]

Ambients(root) == {BareAmbient(root)} \cup {SetAmbient(root, n) : n \in 0..MaxTokens}

GoWorkspaceName(i) ==
  IF i = 1 THEN <<"release", "/", "go">>
  ELSE <<"roadmap" \o ToString(i), "/", "go">>

VdlWorkspaceName(i) ==
  IF i = 1 THEN <<"release", "/", "go">>
  ELSE <<"vdl" \o ToString(i), "/", "go">>

LoadedConfig(g, v) ==
  [status |-> "ok",
   go |-> [i \in 1..g |-> GoWorkspaceName(i)],
   vdl |-> [i \in 1..v |-> VdlWorkspaceName(i)]]

UnreadableConfig == [status |-> "error", go |-> << >>, vdl |-> << >>]

Configs ==
  {UnreadableConfig}
  \cup {LoadedConfig(g, v) : g \in 0..MaxGoWorkspaces, v \in 0..MaxVdlWorkspaces}

\* The manifest names resolved: none, relative ones, absolute ones (one of
\* them not in clean form).
ManifestNames ==
  { EmptyStr, S("default"), <<"sub", "/", "m">>,
    <<"/", "abs", "/", "m">>, <<"/", "abs", "/", "/", "m">> }

PathHelpers == {"LocalManifestFile", "LocalSnapshotDir", "ManifestDir", "RemoteSnapshotDir"}

NoCall == [op |-> "none", platform |-> NoPlatform, name |-> EmptyStr]

NoReturn == [snap |-> << >>, path |-> EmptyStr, err |-> NoErr, depth |-> 0]

(***************************************************************************)
(* The calls.                                                              *)
(***************************************************************************)
\* What a call of VanadiumEnvironment that ended as r leaves: the process
\* environment and the heap of the memory of r, and what the caller sees of
\* the returned snapshot.  The caller either keeps every snapshot object
\* (keep) or has dropped the ones of earlier calls by the time of the next.
EnvironmentReturned(p, keep, r) ==
  /\ call' = [op |-> "VanadiumEnvironment", platform |-> p, name |-> EmptyStr]
  /\ ret' = [snap |-> [i \in 1..Len(r.snap) |-> Deref(r.mem, r.snap[i])],
             path |-> EmptyStr, err |-> r.err, depth |-> 0]
  /\ osEnv' = r.mem.proc
  /\ heap' = IF keep THEN r.mem.objs ELSE << >>

\* A call of VanadiumEnvironment on the memory made of the process
\* environment and the heap.
CallVanadiumEnvironment(p, keep) ==
  /\ keep => Len(heap) < MaxCalls
  /\ EnvironmentReturned(p, keep,
                         VanadiumEnvironment(Memory(osEnv, heap), fs, config, host, p))
  /\ UNCHANGED <<fs, host, config>>

CallResolveManifestPath(name) ==
  LET r == ResolveManifestPath(osEnv, fs, name) IN
    /\ call' = [op |-> "ResolveManifestPath", platform |-> NoPlatform, name |-> name]
    /\ ret' = [snap |-> << >>, path |-> r.path, err |-> r.err, depth |-> r.depth]
    /\ UNCHANGED <<osEnv, heap, fs, host, config>>

CallManifestFile(name) ==
  LET r == ManifestFile(osEnv, name) IN
    /\ call' = [op |-> "ManifestFile", platform |-> NoPlatform, name |-> name]
    /\ ret' = [snap |-> << >>, path |-> r.path, err |-> r.err, depth |-> 0]
    /\ UNCHANGED <<osEnv, heap, fs, host, config>>

CallPathHelper(op) ==
  LET r == CASE op = "LocalManifestFile" -> LocalManifestFile(osEnv)
             [] op = "LocalSnapshotDir" -> LocalSnapshotDir(osEnv)
             [] op = "ManifestDir" -> ManifestDir(osEnv)
             [] OTHER -> RemoteSnapshotDir(osEnv)
  IN
    /\ call' = [op |-> op, platform |-> NoPlatform, name |-> EmptyStr]
    /\ ret' = [snap |-> << >>, path |-> r.path, err |-> r.err, depth |-> 0]
    /\ UNCHANGED <<osEnv, heap, fs, host, config>>

(***************************************************************************)
(* Spec: every operation, over every root setting and every outcome of the *)
(* stats, with a fully set environment and a loaded configuration.         *)
(***************************************************************************)
Init ==
  /\ \E root \in RootSettings : osEnv = SetAmbient(root, MaxTokens)
  /\ fs \in [leveldb : StatOutcomes, localManifest : StatOutcomes,
              defaultManifest : {"exists", "notexist"}]
  /\ host = [GOOS |-> S("linux"), GOARCH |-> S("amd64")]
  /\ config = LoadedConfig(MaxGoWorkspaces, MaxVdlWorkspaces)
  /\ heap = << >>
  /\ call = NoCall
  /\ ret = NoReturn

Next ==
  \/ \E p \in SomePlatforms : CallVanadiumEnvironment(p, FALSE)
  \/ \E name \in ManifestNames : CallResolveManifestPath(name)
  \/ \E name \in ManifestNames \ {EmptyStr} : CallManifestFile(name)
  \/ \E op \in PathHelpers : CallPathHelper(op)

Spec == Init /\ [][Next]_vars

(***************************************************************************)
(* SpecEnv: VanadiumEnvironment over every process environment, host,      *)
(* configuration and outcome of the stat of the library directory.         *)
(***************************************************************************)
InitEnv ==
  /\ \E root \in RootSettings : osEnv \in Ambients(root)
  /\ fs \in [leveldb : StatOutcomes, localManifest : {"exists"},
              defaultManifest : {"exists"}]
  /\ host \in Hosts
  /\ config \in Configs
  /\ heap = << >>
  /\ call = NoCall
  /\ ret = NoReturn

NextEnv == \E p \in Platforms : CallVanadiumEnvironment(p, FALSE)

SpecEnv == InitEnv /\ [][NextEnv]_vars

(***************************************************************************)
(* SpecCalls: sequences of up to MaxCalls calls of VanadiumEnvironment     *)
(* whose snapshot objects all stay in the heap.                            *)
(***************************************************************************)
InitCalls ==
  /\ \E root \in {Unset, Value(RealRoot), Value(LinkRoot)} : osEnv \in Ambients(root)
  /\ fs \in [leveldb : StatOutcomes, localManifest : {"exists"},
              defaultManifest : {"exists"}]
  /\ host \in Hosts
  /\ config = LoadedConfig(MaxGoWorkspaces, MaxVdlWorkspaces)
  /\ heap = << >>
  /\ call = NoCall
  /\ ret = NoReturn

NextCalls == \E p \in SomePlatforms : CallVanadiumEnvironment(p, TRUE)

SpecCalls == InitCalls /\ [][NextCalls]_vars

(***************************************************************************)
(* Vocabulary of the properties.  The expected values are written out as   *)
(* literals, not computed with the operators they are compared against.    *)
(***************************************************************************)
IsEnvCall == call.op = "VanadiumEnvironment"

Succeeded == ret.err = NoErr /\ Len(ret.snap) = 1

\* V23_ROOT is unset or empty.
RootMissing == osEnv[rootEnv].val = << >>

\* V23_ROOT names the tree, directly or through the link: the root is /v23.
RootResolves == osEnv[rootEnv].val \in {<<"/", "v23">>, <<"/", "link">>}

ConfigLoads == config.status = "ok"

Under(segments) == <<"/", "v23">> \o segments

HostPlatform(p) == p.Arch = host.GOARCH /\ p.OS = host.GOOS

ArmLinux(p) == p.Arch = <<"arm">> /\ p.OS = <<"linux">>

ArmAndroid(p) == p.Arch = <<"arm">> /\ p.OS = <<"android">>

NaclTarget(p) == p.Arch \in {<<"386">>, <<"amd64p32">>} /\ p.OS = <<"nacl">>

SupportedPlatform(p) == HostPlatform(p) \/ ArmLinux(p) \/ ArmAndroid(p) \/ NaclTarget(p)

NativeLibraryOS(p) == p.OS \in {<<"darwin">>, <<"linux">>}

\* The stat of the library directory fails with an error other than
\* "does not exist", on a platform for which the code stats it.
LibraryStatFails(p) == NativeLibraryOS(p) /\ fs.leveldb = "error"

\* SubArch with one leading "v" removed.
ArmRevision(p) ==
  IF Len(p.SubArch) > 0 /\ p.SubArch[1] = "v"
  THEN SubSeq(p.SubArch, 2, Len(p.SubArch))
  ELSE p.SubArch

\* The variables in which two environments differ.
Changed(e1, e2) == {k \in EnvKeys : e1[k] # e2[k]}

(***************************************************************************)
(* C1                                                                      *)
(***************************************************************************)
\* C1 as stated: for a platform outside the supported set, with the root
\* variable set (to a root that resolves) and a loadable configuration,
\* VanadiumEnvironment fails with
\* UnsupportedPlatformErr naming the platform and returns no snapshot, for
\* every OS of the rejected platform.
C1_AsStated ==
  (IsEnvCall /\ ~SupportedPlatform(call.platform) /\ RootResolves /\ ConfigLoads)
    => (ret.snap = << >> /\ ret.err = UnsupportedPlatformErr(call.platform))

\* C1 amended: for a platform outside the supported set, with a root that
\* resolves and a loadable configuration, VanadiumEnvironment returns no
\* snapshot and leaves the process environment unchanged; it fails with
\* UnsupportedPlatformErr naming the platform, except that on OS darwin or
\* linux a failing stat of the library directory makes it fail with the Stat
\* error before the platform is looked at.
C1_UnsupportedPlatform ==
  [][(call'.op = "VanadiumEnvironment" /\ ~SupportedPlatform(call'.platform)
       /\ RootResolves /\ ConfigLoads)
      => /\ ret'.snap = << >>
         /\ ret'.err = IF LibraryStatFails(call'.platform)
                       THEN StatErr
                       ELSE UnsupportedPlatformErr(call'.platform)
         /\ osEnv' = osEnv]_vars

\* A rejected linux platform, the library directory present: the
\* native-library step ran and the call ended with UnsupportedPlatformErr.
C1_Witness ==
  /\ IsEnvCall /\ ~SupportedPlatform(call.platform)
  /\ call.platform.OS = <<"linux">> /\ fs.leveldb = "exists"
  /\ RootResolves /\ ConfigLoads
  /\ ret.err.kind = "UnsupportedPlatform" /\ ret.err.platform = call.platform
  /\ ret.snap = << >>

(***************************************************************************)
(* C2                                                                      *)
(***************************************************************************)
\* The variables each case of the switch sets.
BranchVariables(p) ==
  IF HostPlatform(p) THEN {}
  ELSE IF ArmLinux(p) THEN {"GOARCH", "GOOS", "GOARM", "PATH"}
  ELSE IF ArmAndroid(p) THEN {"GOARCH", "GOOS", "GOARM", "CGO_ENABLED", "PATH"}
  ELSE {"GOARCH", "GOOS"}

\* C2 as stated: for every supported platform, with the root variable set
\* (to a root that resolves) and a loadable configuration,
\* VanadiumEnvironment succeeds.
C2_AsStated ==
  (IsEnvCall /\ SupportedPlatform(call.platform) /\ RootResolves /\ ConfigLoads)
    => Succeeded

\* C2 amended: for every supported platform, with a root that resolves, a
\* loadable configuration and no failing stat of the library directory,
\* VanadiumEnvironment succeeds, and the switch sets exactly the variables of
\* its case: none for the host (also when the host is arm/linux), GOARCH,
\* GOOS, GOARM and PATH for arm/linux, these and CGO_ENABLED for arm/android,
\* GOARCH and GOOS for nacl; every other variable is as it was before the
\* switch.
C2_BranchVariables ==
  (IsEnvCall /\ SupportedPlatform(call.platform) /\ RootResolves /\ ConfigLoads
     /\ ~LibraryStatFails(call.platform))
    => /\ Succeeded
       /\ LET env == ret.snap[1]
              b == BeforeSwitch(Memory(osEnv, << >>), fs, config, call.platform)
              before == Deref(b.mem, b.env)
              touched == BranchVariables(call.platform)
          IN  /\ Changed(env, before) \subseteq touched
              /\ \A k \in touched : env[k].set
              /\ "GOARCH" \in touched => env["GOARCH"].val = call.platform.Arch
              /\ "GOOS" \in touched => env["GOOS"].val = call.platform.OS

\* The host is arm/linux and the platform asked for is arm/linux with
\* revision v7: the call succeeded and GOARM, GOOS, GOARCH and PATH are those
\* of the process environment.
C2_Witness ==
  /\ IsEnvCall /\ Succeeded
  /\ host.GOARCH = <<"arm">> /\ host.GOOS = <<"linux">>
  /\ call.platform = [OS |-> <<"linux">>, Arch |-> <<"arm">>, SubArch |-> <<"v", "7">>]
  /\ osEnv["GOARM"] = Value(<<"5">>)
  /\ \A k \in {"GOARM", "GOOS", "GOARCH", "PATH"} : ret.snap[1][k] = osEnv[k]

(***************************************************************************)
(* C3                                                                      *)
(***************************************************************************)
\* C3 as stated: with V23_ROOT unset or empty every operation, including
\* ResolveManifestPath of an absolute name, fails with the root-not-set error
\* and returns neither path nor snapshot.
C3_AsStated ==
  (RootMissing /\ call.op # "none")
    => (ret.err = RootNotSetErr /\ ret.path = << >> /\ ret.snap = << >>)

\* C3 amended: with V23_ROOT unset or empty, VanadiumEnvironment,
\* LocalManifestFile, LocalSnapshotDir, ManifestDir, ManifestFile,
\* RemoteSnapshotDir and ResolveManifestPath of an empty or relative name fail
\* with the root-not-set error and return neither path nor snapshot;
\* ResolveManifestPath of an absolute name returns the name without error.
C3_RootNotSet ==
  (RootMissing /\ call.op # "none")
    => IF call.op = "ResolveManifestPath" /\ Len(call.name) > 0 /\ call.name[1] = "/"
       THEN ret.err = NoErr /\ ret.path = call.name
       ELSE ret.err = RootNotSetErr /\ ret.path = << >> /\ ret.snap = << >>

\* V23_ROOT is unset and a relative manifest name was resolved: the call
\* ended with the root-not-set error.
C3_Witness ==
  /\ ~osEnv[rootEnv].set
  /\ call.op = "ResolveManifestPath" /\ call.name = <<"sub", "/", "m">>
  /\ ret.err.kind = "RootNotSet" /\ ret.path = << >>

(***************************************************************************)
(* C4                                                                      *)
(***************************************************************************)
\* C4: after a successful arm/linux construction for a non-host platform the
\* tokens of PATH are the xgcc cross_arm directory, the go_arm bin directory
\* and then the entries PATH had before, in their order.
C4_ArmLinuxPath ==
  (IsEnvCall /\ Succeeded /\ ArmLinux(call.platform) /\ ~HostPlatform(call.platform))
    => GetTokens(ret.snap[1], "PATH", ":")
         = << Under(<<"/", "third_party", "/", "cout", "/", "xgcc", "/", "cross_arm">>),
              Under(<<"/", "third_party", "/", "repos", "/", "go_arm", "/", "bin">>) >>
           \o GetTokens(osEnv, "PATH", ":")

\* A successful arm/linux construction on another host over a PATH of at
\* least two entries.
C4_Witness ==
  /\ IsEnvCall /\ Succeeded
  /\ ArmLinux(call.platform) /\ ~HostPlatform(call.platform)
  /\ Len(GetTokens(osEnv, "PATH", ":")) >= 2
  /\ Len(GetTokens(ret.snap[1], "PATH", ":")) = Len(GetTokens(osEnv, "PATH", ":")) + 2

(***************************************************************************)
(* C5                                                                      *)
(***************************************************************************)
\* C5: after a successful call the tokens of GOPATH are the entries it had
\* before followed by <root>/<workspace> for each Go workspace in the order of
\* the configuration, and likewise VDLPATH with the VDL workspaces; an unset
\* variable has no entries.
C5_WorkspacePaths ==
  (IsEnvCall /\ Succeeded)
    => /\ GetTokens(ret.snap[1], "GOPATH", ":")
            = GetTokens(osEnv, "GOPATH", ":")
              \o [i \in 1..Len(config.go) |-> Under(<<"/">> \o config.go[i])]
       /\ GetTokens(ret.snap[1], "VDLPATH", ":")
            = GetTokens(osEnv, "VDLPATH", ":")
              \o [i \in 1..Len(config.vdl) |-> Under(<<"/">> \o config.vdl[i])]

\* Root /v23 and the Go workspaces [release/go] over a GOPATH that has
\* entries: /v23/release/go is the last entry.  Two VDL workspaces over a
\* VDLPATH that has entries: they are the last two entries, in the order of
\* the configuration.
C5_Witness ==
  /\ IsEnvCall /\ Succeeded
  /\ config.go = << <<"release", "/", "go">> >>
  /\ config.vdl = << <<"release", "/", "go">>, <<"vdl2", "/", "go">> >>
  /\ Len(GetTokens(osEnv, "GOPATH", ":")) >= 1
  /\ Len(GetTokens(osEnv, "VDLPATH", ":")) >= 1
  /\ LET t == GetTokens(ret.snap[1], "GOPATH", ":")
     IN  Len(t) >= 2 /\ t[Len(t)] = <<"/", "v23", "/", "release", "/", "go">>
  /\ LET t == GetTokens(ret.snap[1], "VDLPATH", ":")
     IN  /\ Len(t) >= 3
         /\ t[Len(t) - 1] = <<"/", "v23", "/", "release", "/", "go">>
         /\ t[Len(t)] = <<"/", "v23", "/", "vdl2", "/", "go">>

(***************************************************************************)
(* C6                                                                      *)
(***************************************************************************)
\* C6: a successful call for a non-host android/arm platform returns
\* GOOS=android, GOARCH=arm, CGO_ENABLED=1, GOARM equal to SubArch less one
\* leading "v", and PATH equal to <root>/environment/android/go/bin followed
\* by the entries PATH had before.
C6_Android ==
  (IsEnvCall /\ Succeeded /\ ArmAndroid(call.platform) /\ ~HostPlatform(call.platform))
    => LET env == ret.snap[1] IN
         /\ env["GOOS"] = Value(<<"android">>)
         /\ env["GOARCH"] = Value(<<"arm">>)
         /\ env["CGO_ENABLED"] = Value(<<"1">>)
         /\ env["GOARM"] = Value(ArmRevision(call.platform))
         /\ GetTokens(env, "PATH", ":")
              = << Under(<<"/", "environment", "/", "android", "/", "go", "/", "bin">>) >>
                \o GetTokens(osEnv, "PATH", ":")

\* android/arm with SubArch v7 succeeded with GOARM=7 and native compilation
\* enabled.
C6_Witness ==
  /\ IsEnvCall /\ Succeeded
  /\ call.platform = [OS |-> <<"android">>, Arch |-> <<"arm">>, SubArch |-> <<"v", "7">>]
  /\ ret.snap[1]["GOARM"] = Value(<<"7">>)
  /\ ret.snap[1]["CGO_ENABLED"] = Value(<<"1">>)

(***************************************************************************)
(* C7                                                                      *)
(***************************************************************************)
\* C7: across sequences of calls of VanadiumEnvironment, on any platforms,
\* succeeding or failing, no call writes to the process environment or to a
\* snapshot object an earlier call allocated; a successful call returns the
\* object it allocated itself, in which a variable no step touches is that of
\* the process environment and GOPATH and VDLPATH hold the entries of the
\* process environment plus one entry per configured workspace, however many
\* calls came before; and after two successful calls in a row GOPATH and
\* VDLPATH are the same, the native-library flags are the same when the two
\* platforms have the same OS, and the whole snapshot is the same when the
\* platforms are the same.
C7_FreshCopy ==
  [][call'.op = "VanadiumEnvironment"
      => /\ osEnv' = osEnv
         /\ Len(heap') = Len(heap) + 1
         /\ \A i \in 1..Len(heap) : heap'[i] = heap[i]
         /\ ret'.err = NoErr
              => /\ ret'.snap = <<heap'[Len(heap')]>>
                 /\ ret'.snap[1]["HOME"] = osEnv["HOME"]
                 /\ Len(GetTokens(ret'.snap[1], "GOPATH", ":"))
                      = Len(GetTokens(osEnv, "GOPATH", ":")) + Len(config.go)
                 /\ Len(GetTokens(ret'.snap[1], "VDLPATH", ":"))
                      = Len(GetTokens(osEnv, "VDLPATH", ":")) + Len(config.vdl)
                 /\ (IsEnvCall /\ Succeeded)
                      => /\ ret'.snap[1]["GOPATH"] = ret.snap[1]["GOPATH"]
                         /\ ret'.snap[1]["VDLPATH"] = ret.snap[1]["VDLPATH"]
                         /\ call'.platform.OS = call.platform.OS
                              => /\ ret'.snap[1]["CGO_CFLAGS"] = ret.snap[1]["CGO_CFLAGS"]
                                 /\ ret'.snap[1]["CGO_LDFLAGS"] = ret.snap[1]["CGO_LDFLAGS"]
                         /\ call'.platform = call.platform => ret' = ret]_vars

\* Two calls for arm/linux on another host, the library directory present:
\* the heap holds two equal snapshot objects, each with the two toolchain
\* directories, the workspaces and the library flags added once, and the
\* process environment holds what it held.
C7_Witness ==
  /\ IsEnvCall /\ Succeeded
  /\ Len(heap) = 2 /\ heap[1] = heap[2] /\ ret.snap = <<heap[2]>> /\ heap[2] # osEnv
  /\ call.platform = [OS |-> <<"linux">>, Arch |-> <<"arm">>, SubArch |-> <<"v", "7">>]
  /\ host.GOARCH # <<"arm">> /\ fs.leveldb = "exists"
  /\ Len(GetTokens(osEnv, "PATH", ":")) >= 1
  /\ Len(GetTokens(heap[1], "PATH", ":")) = Len(GetTokens(osEnv, "PATH", ":")) + 2
  /\ Len(GetTokens(heap[2], "GOPATH", ":"))
       = Len(GetTokens(osEnv, "GOPATH", ":")) + Len(config.go)
  /\ Len(config.go) >= 1
  /\ Len(GetTokens(heap[2], "CGO_LDFLAGS", " "))
       = Len(GetTokens(osEnv, "CGO_LDFLAGS", " ")) + 3

(***************************************************************************)
(* C8                                                                      *)
(***************************************************************************)
\* C8: ResolveManifestPath returns a non-empty absolute name unchanged and
\* without error, whatever the filesystem and the root, and resolving the
\* result again returns it again; a non-empty relative name resolves to
\* <root>/.manifest/v2/<name>, which is absolute and resolves to itself.
C8_Idempotent ==
  (call.op = "ResolveManifestPath" /\ call.name # << >>)
    => IF call.name[1] = "/"
       THEN /\ ret.err = NoErr
            /\ ret.path = call.name
            /\ ResolveManifestPath(osEnv, fs, ret.path) = [path |-> call.name, err |-> NoErr, depth |-> 0]
       ELSE RootResolves
              => /\ ret.err = NoErr
                 /\ ret.path = Under(<<"/", ".manifest", "/", "v2", "/">> \o call.name)
                 /\ ret.path[1] = "/"
                 /\ ResolveManifestPath(osEnv, fs, ret.path) = [path |-> ret.path, err |-> NoErr, depth |-> 0]

\* An absolute name that is not in clean form was resolved with no root set
\* and no local manifest, and came back as it was.
C8_Witness ==
  /\ call.op = "ResolveManifestPath"
  /\ call.name = <<"/", "abs", "/", "/", "m">>
  /\ RootMissing /\ fs.localManifest = "notexist"
  /\ ret.path = <<"/", "abs", "/", "/", "m">> /\ ret.err = NoErr

(***************************************************************************)
(* C9                                                                      *)
(***************************************************************************)
\* C9: ResolveManifestPath of the empty name ends after at most one recursive
\* call: the local manifest when it exists, <root>/.manifest/v2/default after
\* exactly one recursive call when it does not (whether or not that manifest
\* exists), an error and no path when the stat fails otherwise.
C9_DefaultFallback ==
  (call.op = "ResolveManifestPath" /\ call.name = << >>)
    => /\ ret.depth <= 1
       /\ RootResolves
            => /\ fs.localManifest = "exists"
                    => ret = [snap |-> << >>, path |-> Under(<<"/", ".local_manifest">>),
                              err |-> NoErr, depth |-> 0]
               /\ fs.localManifest = "notexist"
                    => ret = [snap |-> << >>,
                              path |-> Under(<<"/", ".manifest", "/", "v2", "/", "default">>),
                              err |-> NoErr, depth |-> 1]
               /\ fs.localManifest = "error"
                    => ret = [snap |-> << >>, path |-> << >>, err |-> StatErr, depth |-> 0]

\* Neither the local manifest nor the default manifest exists: the empty name
\* resolved to the default manifest after one recursive call.
C9_Witness ==
  /\ call.op = "ResolveManifestPath" /\ call.name = << >>
  /\ RootResolves /\ fs.localManifest = "notexist" /\ fs.defaultManifest = "notexist"
  /\ ret.depth = 1 /\ ret.err = NoErr
  /\ ret.path = <<"/", "v23", "/", ".manifest", "/", "v2", "/", "default">>

(***************************************************************************)
(* C10                                                                     *)
(***************************************************************************)
\* C10 as stated: on darwin or linux, when the library directory does not
\* exist, the native-library step changes none of CGO_ENABLED, CGO_CFLAGS and
\* CGO_LDFLAGS.
C10_AsStated ==
  (IsEnvCall /\ Succeeded /\ NativeLibraryOS(call.platform) /\ fs.leveldb = "notexist")
    => /\ ret.snap[1]["CGO_ENABLED"].val = osEnv["CGO_ENABLED"].val
       /\ ret.snap[1]["CGO_CFLAGS"].val = osEnv["CGO_CFLAGS"].val
       /\ ret.snap[1]["CGO_LDFLAGS"].val = osEnv["CGO_LDFLAGS"].val

\* The flags the native-library step adds to CGO_CFLAGS and to CGO_LDFLAGS.
IncludeFlags == << <<"-I", "/", "v23", "/", "third_party", "/", "cout", "/", "leveldb", "/", "include">> >>

LibraryFlags(p) ==
  << <<"-L", "/", "v23", "/", "third_party", "/", "cout", "/", "leveldb", "/", "lib">> >>
  \o (IF p.OS = <<"linux">>
      THEN << <<"-Wl,-rpath">>,
              <<"/", "v23", "/", "third_party", "/", "cout", "/", "leveldb", "/", "lib">> >>
      ELSE << >>)

\* C10 amended: the native-library step runs only for OS darwin or linux.
\* There it sets CGO_ENABLED=1 whether or not <root>/third_party/cout/leveldb
\* exists; when the directory exists it appends the include flag to the tokens
\* of CGO_CFLAGS and the library flag to those of CGO_LDFLAGS, on linux
\* followed by '-Wl,-rpath' and <dir>/lib; when it does not exist the tokens
\* of both are those they had and the call does not fail; when the stat fails
\* otherwise the call fails with the Stat error.  For any other OS CGO_CFLAGS
\* and CGO_LDFLAGS are untouched, and so is CGO_ENABLED unless the arm/android
\* case sets it.
C10_NativeLibrary ==
  (IsEnvCall /\ RootResolves /\ ConfigLoads)
    => IF NativeLibraryOS(call.platform)
       THEN /\ fs.leveldb = "error" => (ret.err = StatErr /\ ret.snap = << >>)
            /\ (fs.leveldb # "error" /\ SupportedPlatform(call.platform)) => Succeeded
            /\ Succeeded
                 => /\ ret.snap[1]["CGO_ENABLED"] = Value(<<"1">>)
                    /\ GetTokens(ret.snap[1], "CGO_CFLAGS", " ")
                         = GetTokens(osEnv, "CGO_CFLAGS", " ")
                           \o (IF fs.leveldb = "exists" THEN IncludeFlags ELSE << >>)
                    /\ GetTokens(ret.snap[1], "CGO_LDFLAGS", " ")
                         = GetTokens(osEnv, "CGO_LDFLAGS", " ")
                           \o (IF fs.leveldb = "exists" THEN LibraryFlags(call.platform) ELSE << >>)
       ELSE Succeeded
              => /\ ret.snap[1]["CGO_CFLAGS"] = osEnv["CGO_CFLAGS"]
                 /\ ret.snap[1]["CGO_LDFLAGS"] = osEnv["CGO_LDFLAGS"]
                 /\ ~ArmAndroid(call.platform)
                      => ret.snap[1]["CGO_ENABLED"] = osEnv["CGO_ENABLED"]

\* A successful darwin call on a darwin host with the library directory
\* present: CGO_ENABLED went from 0 to 1, CGO_CFLAGS gained the include flag
\* and CGO_LDFLAGS the library flag alone, without the rpath flags of linux.
C10_Witness ==
  /\ IsEnvCall /\ Succeeded
  /\ call.platform.OS = <<"darwin">> /\ fs.leveldb = "exists"
  /\ osEnv["CGO_ENABLED"] = Value(<<"0">>)
  /\ ret.snap[1]["CGO_ENABLED"] = Value(<<"1">>)
  /\ Len(GetTokens(osEnv, "CGO_LDFLAGS", " ")) >= 1
  /\ Len(GetTokens(ret.snap[1], "CGO_LDFLAGS", " "))
       = Len(GetTokens(osEnv, "CGO_LDFLAGS", " ")) + 1
  /\ Len(GetTokens(ret.snap[1], "CGO_CFLAGS", " "))
       = Len(GetTokens(osEnv, "CGO_CFLAGS", " ")) + 1

====
